---- MODULE Spec2Model ----
(***************************************************************************)
(* Cloudreve: the filesystem hook pipeline (pkg/filesystem/hooks.go) and   *)
(* the upload-callback authentication middleware (middleware/auth.go).     *)
(*                                                                         *)
(* Specifications:                                                         *)
(*   Spec              Use / CleanHooks / Trigger on one FileSystem        *)
(*   SpecValidateFile  HookValidateFile on bounded inputs                  *)
(*   SpecCapacityDiff  HookValidateCapacityDiff on bounded inputs          *)
(*   SpecChunk         HookChunkUploaded / HookChunkUploadFailed           *)
(*   SpecCallback      concurrent callback requests (uploadCallbackCheck)  *)
(*   SpecCallbackSeq   the same requests, one after another                *)
(*   SpecGates         SignRequired / CurrentUser / AuthRequired /         *)
(*                     WebDAVAuth in front of a handler                    *)
(*   SpecThumb         HookGenerateThumb, callers and goroutines           *)
(*   SpecThumbFair     the same with fair scheduling                       *)
(*   SpecRecordHooks   the hooks that read or write file records           *)
(***************************************************************************)
EXTENDS Integers, Sequences, FiniteSets, TLC

VARIABLES
    Hooks,        \* fs.Hooks: [isNil, m], m a map name -> sequence of hooks
    registered,   \* history: hooks passed to Use per name since it was last cleared
    op,           \* the operation that produced the current state
    opName,       \* the hook-point name that operation was called with
    fsUser,       \* fs.User: [Remaining] as GetRemainingCapacity reports it
    fsPolicy,     \* fs.Policy: [MaxSize]
    ctxFile,      \* ctx.Value(fsctx.FileModelCtx): [present, Size]
    fileIn,       \* the FileHeader as the caller passed it
    file,         \* the FileHeader after the operation
    fileModel,    \* the persisted file record fileInfo.Model points to: [Size]
    trace,        \* the hooks the last Trigger / hook call executed, with results
    ret,          \* the error the last operation returned
    cache,        \* cache store under the callback_ prefix: key -> session
    users,        \* user store: uid -> policy id, NoUser when the uid is unknown
    pc,           \* per request: position inside the callback middleware
    req,          \* per request: its locals (key, session copy, resp, user, ...)
    claims,       \* history: per key, how many requests found the session
                  \* stored under it since it was last stored
    gin,          \* the gin.Context of the request in the middleware chain
    recycleLock,  \* per FileSystem: fs.recycleLock is locked
    thumbNeeded,  \* per FileSystem: fs.Policy.IsThumbGenerateNeeded()
    tasks,        \* the background goroutines started by HookGenerateThumb
    caller,       \* per foreground caller: where it is in HookGenerateThumb
    lockOps,      \* history: per FileSystem, Lock and Unlock calls so far
    db,           \* the file records of the folder the upload goes to
    fsHandler,    \* fs.Handler: the driver DispatchHandler resolved
    env           \* what the collaborators of the last hook call returned

hookVars == <<Hooks, registered, op, opName, fsUser, fsPolicy, ctxFile,
              fileIn, file, fileModel, trace, ret>>
cbVars == <<cache, users, pc, req, claims>>
gateVars == <<gin>>
thumbVars == <<recycleLock, thumbNeeded, tasks, caller, lockOps>>
recordVars == <<db, fsHandler, env>>
outsideHooks == <<cbVars, gateVars, thumbVars, recordVars>>
outsideCallback == <<hookVars, gateVars, thumbVars, recordVars>>
vars == <<Hooks, registered, op, opName, fsUser, fsPolicy, ctxFile,
          fileIn, file, fileModel, trace, ret, cache, users, pc, req,
          claims, gin, recycleLock, thumbNeeded, tasks, caller, lockOps,
          db, fsHandler, env>>

----------------------------------------------------------------------------
(* Bounds *)

MaxHooks == 3
MaxSize == 2

----------------------------------------------------------------------------
(* Values *)

NoErr == "nil"
ErrFileSizeTooBig == "ErrFileSizeTooBig"
ErrIllegalObjectName == "ErrIllegalObjectName"
ErrFileExtensionNotAllowed == "ErrFileExtensionNotAllowed"
ErrInsufficientCapacity == "ErrInsufficientCapacity"
ErrObjectNotExist == "ErrObjectNotExist"
Panic == "panic"

Sizes == 0..MaxSize
Names == {"", "upload", "update"}
FileNames == {"a.txt", "a.exe", "a/b.txt", "a/b.exe"}
FileHeaders == [Size : Sizes, FileName : FileNames, AppendStart : {0}]

HookIds == {"HookValidateFile", "HookClearFileHeaderSize"}

EmptyMap == [n \in {} |-> <<>>]
NilHooks == [isNil |-> TRUE, m |-> EmptyMap]

RECURSIVE TotalHooks(_, _)
RECURSIVE RunHooks(_, _, _, _, _)

----------------------------------------------------------------------------
(* Collaborators of the hooks that live outside hooks.go *)

\* fs.ValidateFileSize: size <= policy limit
ValidateFileSize(policy, size) == size <= policy.MaxSize

\* fs.ValidateLegalName: rejects reserved / invalid characters
ValidateLegalName(name) == name \notin {"a/b.txt", "a/b.exe"}

\* the extension of a file name
Ext(name) == IF name \in {"a.txt", "a/b.txt"} THEN "txt" ELSE "exe"

\* fs.ValidateExtension: extension against the policy allow-list
ValidateExtension(policy, name) == Ext(name) \in policy.FileType

\* fs.User.GetRemainingCapacity
GetRemainingCapacity(user) == user.Remaining

\* model.File.UpdateSize: the persisted size becomes value
UpdateSize(model, value) == [model EXCEPT !.Size = value]

----------------------------------------------------------------------------
(* Hooks: each yields [err, file, calls]; calls lists what it evaluated *)

HookResult(err, f, calls) == [err |-> err, file |-> f, calls |-> calls]

HookValidateFileNameFirst(policy, f) ==
    IF ~ValidateLegalName(f.FileName)
    THEN HookResult(ErrIllegalObjectName, f, <<"ValidateLegalName">>)
    ELSE IF ~ValidateFileSize(policy, f.Size)
    THEN HookResult(ErrFileSizeTooBig, f,
                    <<"ValidateLegalName", "ValidateFileSize">>)
    ELSE IF ~ValidateExtension(policy, f.FileName)
    THEN HookResult(ErrFileExtensionNotAllowed, f,
                    <<"ValidateLegalName", "ValidateFileSize", "ValidateExtension">>)
    ELSE HookResult(NoErr, f,
                    <<"ValidateLegalName", "ValidateFileSize", "ValidateExtension">>)

HookValidateFile(policy, f) ==
    IF ~ValidateFileSize(policy, f.Size)
    THEN HookResult(ErrFileSizeTooBig, f, <<"ValidateFileSize">>)
    ELSE IF ~ValidateLegalName(f.FileName)
    THEN HookResult(ErrIllegalObjectName, f,
                    <<"ValidateFileSize", "ValidateLegalName">>)
    ELSE IF ~ValidateExtension(policy, f.FileName)
    THEN HookResult(ErrFileExtensionNotAllowed, f,
                    <<"ValidateFileSize", "ValidateLegalName", "ValidateExtension">>)
    ELSE HookResult(NoErr, f,
                    <<"ValidateFileSize", "ValidateLegalName", "ValidateExtension">>)

HookValidateCapacity(user, f) ==
    IF GetRemainingCapacity(user) < f.Size
    THEN HookResult(ErrInsufficientCapacity, f, <<>>)
    ELSE HookResult(NoErr, f, <<>>)

HookValidateCapacityAlways(ctx, user, f) == HookValidateCapacity(user, f)

\* originFile := ctx.Value(fsctx.FileModelCtx).(model.File) panics when the
\* context holds no file record
HookValidateCapacityDiff(ctx, user, f) ==
    IF ~ctx.present THEN HookResult(Panic, f, <<>>)
    ELSE IF f.Size > ctx.Size THEN HookValidateCapacity(user, f)
    ELSE HookResult(NoErr, f, <<>>)

HookChunkUploadedCumulative(model, f) == UpdateSize(model, model.Size + f.Size)

HookChunkUploaded(model, f) == UpdateSize(model, f.AppendStart + f.Size)

HookChunkUploadFailed(model, f) == UpdateSize(model, f.AppendStart)

HookClearFileHeaderSize(f) == HookResult(NoErr, [f EXCEPT !.Size = 0], <<>>)

\* hook(ctx, fs, file) for a registered hook
CallHook(h, policy, f) ==
    CASE h = "HookValidateFile" -> HookValidateFile(policy, f)
      [] h = "HookClearFileHeaderSize" -> HookClearFileHeaderSize(f)

----------------------------------------------------------------------------
(* The hook registry: Use, CleanHooks, Trigger *)

MapPut(m, k, v) == [x \in (DOMAIN m) \cup {k} |-> IF x = k THEN v ELSE m[x]]
MapDelete(m, k) == [x \in (DOMAIN m) \ {k} |-> m[x]]

\* hooks, ok := fs.Hooks[name]; a nil map holds no key
LookupFallback(H, name) ==
    IF ~H.isNil /\ name \in DOMAIN H.m THEN H.m[name]
    ELSE IF ~H.isNil /\ DOMAIN H.m # {}
    THEN H.m[CHOOSE n \in DOMAIN H.m : TRUE]
    ELSE <<>>

Lookup(H, name) ==
    IF ~H.isNil /\ name \in DOMAIN H.m THEN H.m[name] ELSE <<>>

Has(H, name) == ~H.isNil /\ name \in DOMAIN H.m

TotalHooks(H, names) ==
    IF names = {} THEN 0
    ELSE LET n == CHOOSE x \in names : TRUE
         IN Len(H.m[n]) + TotalHooks(H, names \ {n})

\* if fs.Hooks == nil { fs.Hooks = make(map[string][]Hook) }
MakeIfNil(H) == IF H.isNil THEN [isNil |-> FALSE, m |-> EmptyMap] ELSE H

\* fs.Hooks[name] = v: assignment to an entry of a nil map panics
MapAssign(H, name, v) ==
    IF H.isNil THEN [panic |-> TRUE, H |-> H]
    ELSE [panic |-> FALSE, H |-> [H EXCEPT !.m = MapPut(H.m, name, v)]]

PrependHook(list, hook) == <<hook>> \o list

AppendHook(list, hook) == Append(list, hook)

UseResult(H, name, hook) ==
    LET H1 == MakeIfNil(H)
    IN IF Has(H1, name)
       THEN MapAssign(H1, name, AppendHook(H1.m[name], hook))
       ELSE MapAssign(H1, name, <<hook>>)

CleanAll(H, name) == NilHooks

CleanResult(H, name) ==
    IF name = "" THEN NilHooks
    ELSE IF H.isNil THEN H
    ELSE [H EXCEPT !.m = MapDelete(H.m, name)]

NeverStop(err) == FALSE

\* if err != nil { ...; return err }
StopOnError(err) == err # NoErr

RunHooks(hooks, i, policy, f, tr) ==
    IF i > Len(hooks) THEN [err |-> NoErr, file |-> f, trace |-> tr]
    ELSE LET r == CallHook(hooks[i], policy, f)
             tr1 == Append(tr, [hook |-> hooks[i], err |-> r.err])
         IN IF StopOnError(r.err)
            THEN [err |-> r.err, file |-> r.file, trace |-> tr1]
            ELSE RunHooks(hooks, i + 1, policy, r.file, tr1)

Idle == [Size |-> 0, FileName |-> "a.txt", AppendStart |-> 0]

Use(name, hook) ==
    /\ TotalHooks(MakeIfNil(Hooks), DOMAIN MakeIfNil(Hooks).m) < MaxHooks
    /\ LET r == UseResult(Hooks, name, hook)
       IN /\ Hooks' = r.H
          /\ ret' = IF r.panic THEN Panic ELSE NoErr
    /\ registered' = [registered EXCEPT ![name] = Append(@, hook)]
    /\ op' = "Use"
    /\ opName' = name
    /\ fileIn' = Idle /\ file' = Idle /\ trace' = <<>>
    /\ UNCHANGED <<fsUser, fsPolicy, ctxFile, fileModel>>

CleanHooks(name) ==
    /\ Hooks' = CleanResult(Hooks, name)
    /\ registered' = [n \in Names |->
                        IF name = "" \/ n = name THEN <<>> ELSE registered[n]]
    /\ op' = "CleanHooks"
    /\ opName' = name
    /\ ret' = NoErr
    /\ fileIn' = Idle /\ file' = Idle /\ trace' = <<>>
    /\ UNCHANGED <<fsUser, fsPolicy, ctxFile, fileModel>>

Trigger(name, f) ==
    /\ LET r == RunHooks(Lookup(Hooks, name), 1, fsPolicy, f, <<>>)
       IN /\ ret' = r.err
          /\ file' = r.file
          /\ trace' = r.trace
    /\ fileIn' = f
    /\ op' = "Trigger"
    /\ opName' = name
    /\ UNCHANGED <<Hooks, registered, fsUser, fsPolicy, ctxFile, fileModel>>

NoFile == [present |-> FALSE, Size |-> 0]
NoRequests == [p \in {} |-> 0]

CallbackIdle ==
    /\ cache = EmptyMap
    /\ users = EmptyMap
    /\ pc = NoRequests
    /\ req = NoRequests
    /\ claims = NoRequests

\* no request in the middleware chain
NoContext == [chain |-> <<>>, idx |-> 1, aborted |-> FALSE, user |-> "nil",
              ran |-> <<>>, last |-> [gate |-> "none"]]

GatesIdle == gin = NoContext

NumCallers == 2
MaxCalls == 2

\* FileSystem instances and the request goroutines that call the hook
FSs == {"fs1", "fs2"}
Callers == 1..NumCallers

IdleCaller == [pc |-> "idle", fs |-> "fs1"]

\* no HookGenerateThumb call made, every recycleLock unlocked
NoThumbCalls ==
    /\ recycleLock = [f \in FSs |-> FALSE]
    /\ tasks = {}
    /\ caller = [c \in Callers |-> IdleCaller]
    /\ lockOps = [f \in FSs |-> [Lock |-> 0, Unlock |-> 0]]

ThumbIdle == NoThumbCalls /\ thumbNeeded = [f \in FSs |-> FALSE]

NoEnv == [call |-> "none"]

\* no file record, the local driver, no record hook called
RecordsIdle ==
    /\ db = {}
    /\ fsHandler = "local"
    /\ env = NoEnv

\* A FileSystem as constructed: no hooks registered yet
HooksIdle ==
    /\ Hooks = NilHooks
    /\ registered = [n \in Names |-> <<>>]
    /\ opName = ""

NoCallYet ==
    /\ op = "init"
    /\ fileIn = Idle
    /\ file = Idle
    /\ trace = <<>>
    /\ ret = NoErr

InitHooks ==
    /\ HooksIdle
    /\ NoCallYet
    /\ fsUser = [Remaining |-> 0]
    /\ fsPolicy \in [MaxSize : Sizes, FileType : {{"txt"}}]
    /\ ctxFile = NoFile
    /\ fileModel = [Size |-> 0]

Init == InitHooks /\ CallbackIdle /\ GatesIdle /\ ThumbIdle /\ RecordsIdle

Next ==
    \/ \E name \in Names, hook \in HookIds : Use(name, hook) /\ UNCHANGED outsideHooks
    \/ \E name \in Names : CleanHooks(name) /\ UNCHANGED outsideHooks
    \/ \E name \in Names, f \in FileHeaders : Trigger(name, f) /\ UNCHANGED outsideHooks

Spec == Init /\ [][Next]_vars

----------------------------------------------------------------------------
(* Claims on the hook registry *)

\* the hook list stored under a name, read off the mapping itself
ListOf(H, name) == IF H.isNil \/ name \notin DOMAIN H.m THEN <<>> ELSE H.m[name]

TraceHooks == [i \in 1..Len(trace) |-> trace[i].hook]

\* C1: when Trigger runs a name and the k-th hook returns an error, hooks
\* 1..k-1 ran once each in order and succeeded, hooks k+1..n did not run, and
\* Trigger returns the k-th hook's error; when no hook fails all n hooks ran
\* in order and Trigger returns nil.
TriggerStopsAtFirstError ==
    op = "Trigger" =>
        LET hs == ListOf(Hooks, opName)
            k == Len(trace)
        IN /\ k <= Len(hs)
           /\ \A i \in 1..k : trace[i].hook = hs[i]
           /\ \A i \in 1..(k - 1) : trace[i].err = NoErr
           /\ IF k > 0 /\ trace[k].err # NoErr
              THEN ret = trace[k].err
              ELSE k = Len(hs) /\ ret = NoErr

\* a hook in the middle of a list of three failed: one hook after it never ran
TriggerStoppedEarly ==
    /\ op = "Trigger"
    /\ Len(ListOf(Hooks, opName)) = 3
    /\ Len(trace) = 2
    /\ ret = ErrIllegalObjectName

\* C2: the hooks a successful Trigger(name) executes are exactly the hooks
\* passed to Use(name, .) since name was last cleared, in registration order,
\* duplicates kept; Use never fails, also on a nil mapping.
TriggerRunsRegisteredInOrder ==
    /\ (op = "Trigger" /\ ret = NoErr) => TraceHooks = registered[opName]
    /\ op = "Use" => (ret = NoErr /\ ~Hooks.isNil
                      /\ ListOf(Hooks, opName) = registered[opName])

\* a hook registered twice ran twice, after another hook registered before it
TriggerRanDuplicate ==
    /\ op = "Trigger"
    /\ ret = NoErr
    /\ TraceHooks = <<"HookClearFileHeaderSize", "HookValidateFile", "HookValidateFile">>

\* C3: Trigger on a name with zero registered hooks (absent key or nil
\* mapping) returns nil, executes no hook and changes neither the mapping,
\* the FileSystem nor the FileHeader.
TriggerNoHooksIsNoOp ==
    [][(op' = "Trigger" /\ (Hooks.isNil \/ opName' \notin DOMAIN Hooks.m)) =>
          /\ ret' = NoErr
          /\ trace' = <<>>
          /\ file' = fileIn'
          /\ Hooks' = Hooks
          /\ fsUser' = fsUser /\ fsPolicy' = fsPolicy
          /\ ctxFile' = ctxFile /\ fileModel' = fileModel]_vars

\* Trigger ran on an unregistered name while another name holds hooks, with a
\* FileHeader that a registered hook would have rejected
TriggerOnEmptyName ==
    /\ op = "Trigger"
    /\ ~Hooks.isNil
    /\ DOMAIN Hooks.m # {}
    /\ opName \notin DOMAIN Hooks.m
    /\ fileIn.Size > fsPolicy.MaxSize
    /\ trace = <<>>

\* C4: CleanHooks(name), name non-empty, removes that name's list and leaves
\* every other name's list as it was; CleanHooks("") leaves no name with a
\* hook; on an unregistered name or a nil mapping nothing changes; it never
\* fails.
CleanHooksFrame ==
    [][op' = "CleanHooks" =>
          /\ ret' = NoErr
          /\ ListOf(Hooks', opName') = <<>>
          /\ opName' = "" => \A n \in Names : ListOf(Hooks', n) = <<>>
          /\ opName' # "" =>
                \A n \in Names \ {opName'} : ListOf(Hooks', n) = ListOf(Hooks, n)
          /\ (Hooks.isNil \/ (opName' # "" /\ opName' \notin DOMAIN Hooks.m)) =>
                Hooks' = Hooks]_vars

\* one name was cleaned while another name still holds two hooks
CleanedOneName ==
    /\ op = "CleanHooks"
    /\ opName = "upload"
    /\ ~Hooks.isNil
    /\ "upload" \notin DOMAIN Hooks.m
    /\ Len(ListOf(Hooks, "update")) = 2

----------------------------------------------------------------------------
(* HookValidateFile applied to bounded FileHeaders under bounded policies *)

Policies == [MaxSize : Sizes, FileType : SUBSET {"txt", "exe"}]

InitValidateFile ==
    /\ HooksIdle
    /\ NoCallYet
    /\ fsUser = [Remaining |-> 0]
    /\ fsPolicy \in Policies
    /\ ctxFile = NoFile
    /\ fileModel = [Size |-> 0]
    /\ CallbackIdle
    /\ GatesIdle /\ ThumbIdle /\ RecordsIdle

ApplyValidateFile(f) ==
    /\ LET r == HookValidateFile(fsPolicy, f)
       IN /\ ret' = r.err
          /\ file' = r.file
          /\ trace' = r.calls
    /\ fileIn' = f
    /\ op' = "HookValidateFile"
    /\ UNCHANGED <<Hooks, registered, opName, fsUser, fsPolicy, ctxFile, fileModel>>

NextValidateFile ==
    \E f \in FileHeaders : ApplyValidateFile(f) /\ UNCHANGED outsideHooks

SpecValidateFile == InitValidateFile /\ [][NextValidateFile]_vars

\* C10: HookValidateFile checks size, then name, then extension, and returns
\* the error of the first violated rule, evaluating no later rule; it returns
\* nil when no rule is violated; the three errors are distinct.
ValidateFileFirstViolation ==
    /\ Cardinality({ErrFileSizeTooBig, ErrIllegalObjectName,
                    ErrFileExtensionNotAllowed, NoErr}) = 4
    /\ op = "HookValidateFile" =>
          LET sizeOK == fileIn.Size <= fsPolicy.MaxSize
              nameOK == ValidateLegalName(fileIn.FileName)
              extOK == Ext(fileIn.FileName) \in fsPolicy.FileType
          IN /\ ~sizeOK =>
                   ret = ErrFileSizeTooBig /\ trace = <<"ValidateFileSize">>
             /\ (sizeOK /\ ~nameOK) =>
                   /\ ret = ErrIllegalObjectName
                   /\ trace = <<"ValidateFileSize", "ValidateLegalName">>
             /\ (sizeOK /\ nameOK) =>
                   /\ ret = IF extOK THEN NoErr ELSE ErrFileExtensionNotAllowed
                   /\ trace = <<"ValidateFileSize", "ValidateLegalName",
                                "ValidateExtension">>
             /\ file = fileIn

\* a FileHeader violating all three rules was rejected for its size alone
ValidateFileAllViolated ==
    /\ op = "HookValidateFile"
    /\ fileIn.Size > fsPolicy.MaxSize
    /\ ~ValidateLegalName(fileIn.FileName)
    /\ Ext(fileIn.FileName) \notin fsPolicy.FileType
    /\ ret = ErrFileSizeTooBig
    /\ Len(trace) = 1

----------------------------------------------------------------------------
(* HookValidateCapacityDiff applied to bounded sizes and quotas *)

CtxFiles == {NoFile} \cup [present : {TRUE}, Size : Sizes]

InitCapacityDiff ==
    /\ HooksIdle
    /\ NoCallYet
    /\ fsUser \in [Remaining : Sizes]
    /\ fsPolicy = [MaxSize |-> 0, FileType |-> {}]
    /\ ctxFile \in CtxFiles
    /\ fileModel = [Size |-> 0]
    /\ CallbackIdle
    /\ GatesIdle /\ ThumbIdle /\ RecordsIdle

ApplyValidateCapacityDiff(f) ==
    /\ LET r == HookValidateCapacityDiff(ctxFile, fsUser, f)
       IN /\ ret' = r.err
          /\ file' = r.file
    /\ fileIn' = f
    /\ op' = "HookValidateCapacityDiff"
    /\ UNCHANGED <<Hooks, registered, opName, fsUser, fsPolicy, ctxFile,
                   fileModel, trace>>

NextCapacityDiff ==
    \E f \in FileHeaders : ApplyValidateCapacityDiff(f) /\ UNCHANGED outsideHooks

SpecCapacityDiff == InitCapacityDiff /\ [][NextCapacityDiff]_vars

\* C8: with the original file record in the context, HookValidateCapacityDiff
\* returns nil whenever the new size is at most the original size, whatever
\* the remaining quota; when the new size is larger it returns
\* ErrInsufficientCapacity exactly when the remaining capacity is less than
\* the new file's full size, and nil otherwise.
CapacityDiffOnlyOnGrowth ==
    (op = "HookValidateCapacityDiff" /\ ctxFile.present) =>
        /\ fileIn.Size <= ctxFile.Size => ret = NoErr
        /\ fileIn.Size > ctxFile.Size =>
              ret = IF fsUser.Remaining < fileIn.Size
                    THEN ErrInsufficientCapacity ELSE NoErr

\* a non-empty update no larger than the original passed with zero quota left
CapacityDiffShrinkAtZeroQuota ==
    /\ op = "HookValidateCapacityDiff"
    /\ ctxFile.present
    /\ fileIn.Size > 0
    /\ fileIn.Size <= ctxFile.Size
    /\ fsUser.Remaining = 0
    /\ ret = NoErr

----------------------------------------------------------------------------
(* Chunk hooks on one FileHeader and its persisted file record *)

MaxOps == 3

ChunkHeaders == [Size : Sizes, FileName : {"a.txt"}, AppendStart : Sizes]

InitChunk ==
    /\ HooksIdle
    /\ op = "init"
    /\ ret = NoErr
    /\ trace = <<>>
    /\ fileIn \in ChunkHeaders
    /\ file = fileIn
    /\ fsUser = [Remaining |-> 0]
    /\ fsPolicy = [MaxSize |-> 0, FileType |-> {}]
    /\ ctxFile = NoFile
    /\ fileModel \in [Size : Sizes]
    /\ CallbackIdle
    /\ GatesIdle /\ ThumbIdle /\ RecordsIdle

\* the next chunk request arrives with its own FileHeader for the same record
NewChunk(f) ==
    /\ fileIn' = f
    /\ file' = f
    /\ trace' = <<>>
    /\ op' = "NewChunk"
    /\ ret' = NoErr
    /\ UNCHANGED <<Hooks, registered, opName, fsUser, fsPolicy, ctxFile, fileModel>>

ChunkUploaded ==
    /\ Len(trace) < MaxOps
    /\ fileModel' = HookChunkUploaded(fileModel, file)
    /\ trace' = Append(trace, "HookChunkUploaded")
    /\ op' = "HookChunkUploaded"
    /\ ret' = NoErr
    /\ UNCHANGED <<Hooks, registered, opName, fsUser, fsPolicy, ctxFile,
                   fileIn, file>>

ChunkUploadFailed ==
    /\ Len(trace) < MaxOps
    /\ fileModel' = HookChunkUploadFailed(fileModel, file)
    /\ trace' = Append(trace, "HookChunkUploadFailed")
    /\ op' = "HookChunkUploadFailed"
    /\ ret' = NoErr
    /\ UNCHANGED <<Hooks, registered, opName, fsUser, fsPolicy, ctxFile,
                   fileIn, file>>

NextChunk ==
    \/ \E f \in ChunkHeaders : NewChunk(f) /\ UNCHANGED outsideHooks
    \/ ChunkUploaded /\ UNCHANGED outsideHooks
    \/ ChunkUploadFailed /\ UNCHANGED outsideHooks

SpecChunk == InitChunk /\ [][NextChunk]_vars

\* C9: after HookChunkUploaded, however many times it ran for the same chunk,
\* the recorded size is appendStart + chunkSize; after HookChunkUploaded
\* followed by HookChunkUploadFailed on the same FileHeader it is appendStart.
ChunkSizeAccounting ==
    LET n == Len(trace)
    IN /\ (n > 0 /\ trace[n] = "HookChunkUploaded") =>
              fileModel.Size = file.AppendStart + file.Size
       /\ (n > 1 /\ trace[n - 1] = "HookChunkUploaded"
                 /\ trace[n] = "HookChunkUploadFailed") =>
              fileModel.Size = file.AppendStart

\* the same chunk was recorded twice and then rolled back
ChunkRetriedThenFailed ==
    /\ trace = <<"HookChunkUploaded", "HookChunkUploaded", "HookChunkUploadFailed">>
    /\ file.Size > 0
    /\ file.AppendStart > 0
    /\ fileModel.Size = file.AppendStart


----------------------------------------------------------------------------
(* Upload-callback middleware: uploadCallbackCheck and its two callers *)

NumReq == 2

\* serializer response codes; Response{} carries code 0
CodeOK == 0
CodeCheckLogin == 401
CodeParamErr == 40001
CodePolicyNotAllowed == 40006

Reqs == 1..NumReq
CacheKeys == {"k1"}
ParamKeys == {""} \cup CacheKeys
UIDs == {1}
PolicyIDs == {1, 2}
NoUser == 0

NoSession == [present |-> FALSE, UID |-> 0, PolicyID |-> 0]

IdleReq ==
    [key |-> "", session |-> NoSession, code |-> CodeOK, msg |-> "",
     hasUser |-> FALSE, userLoaded |-> FALSE, userPolicy |-> NoUser,
     outcome |-> "none"]

\* cache.Get("callback_" + key)
CacheGet(c, key) == c[key]

CacheDeletesNothing(c, key) == c

\* cache.Deletes([]string{key}, "callback_")
CacheDeletes(c, key) == [c EXCEPT ![key] = NoSession]

\* the part of uploadCallbackCheck after the session is cleaned up, with the
\* policy check left out
CheckUserNoPolicy(session, us) ==
    IF us[session.UID] = NoUser
    THEN [code |-> CodeCheckLogin, msg |-> "user not found", hasUser |-> FALSE,
          userLoaded |-> FALSE, userPolicy |-> NoUser]
    ELSE [code |-> CodeOK, msg |-> "", hasUser |-> TRUE,
          userLoaded |-> TRUE, userPolicy |-> us[session.UID]]

\* model.GetUserByID(callbackSession.UID), then the policy consistency check
CheckUser(session, us) ==
    IF us[session.UID] = NoUser
    THEN [code |-> CodeCheckLogin, msg |-> "user not found", hasUser |-> FALSE,
          userLoaded |-> FALSE, userPolicy |-> NoUser]
    ELSE IF us[session.UID] # session.PolicyID
    THEN [code |-> CodePolicyNotAllowed, msg |-> "policy changed",
          hasUser |-> FALSE, userLoaded |-> TRUE, userPolicy |-> us[session.UID]]
    ELSE [code |-> CodeOK, msg |-> "", hasUser |-> TRUE,
          userLoaded |-> TRUE, userPolicy |-> us[session.UID]]

InitCallback ==
    /\ InitHooks
    /\ fsPolicy.MaxSize = 0
    /\ cache = [k \in CacheKeys |-> NoSession]
    /\ users \in [UIDs -> {NoUser} \cup PolicyIDs]
    /\ pc = [p \in Reqs |-> "idle"]
    /\ req = [p \in Reqs |-> IdleReq]
    /\ claims = [k \in CacheKeys |-> 0]
    /\ GatesIdle /\ ThumbIdle /\ RecordsIdle

\* upload initiation stores a session under its callback key, recording the
\* user's policy of that moment
StoreSession(key, uid) ==
    /\ users[uid] # NoUser
    /\ cache' = [cache EXCEPT ![key] = [present |-> TRUE, UID |-> uid,
                                        PolicyID |-> users[uid]]]
    /\ claims' = [claims EXCEPT ![key] = 0]
    /\ UNCHANGED <<users, pc, req>>

\* the user store changes: policy switched, user removed or created
SetUser(uid, v) ==
    /\ users[uid] # v
    /\ users' = [users EXCEPT ![uid] = v]
    /\ UNCHANGED <<cache, pc, req, claims>>

\* a callback request enters uploadCallbackCheck: key check and cache.Get
Begin(p, key) ==
    /\ pc[p] = "idle"
    /\ LET r0 == [IdleReq EXCEPT !.key = key]
           found == CacheGet(cache, key)
       IN IF key = ""
          THEN /\ req' = [req EXCEPT ![p] =
                            [r0 EXCEPT !.code = CodeParamErr, !.msg = "empty key"]]
               /\ pc' = [pc EXCEPT ![p] = "ret"]
               /\ UNCHANGED claims
          ELSE IF ~found.present
          THEN /\ req' = [req EXCEPT ![p] =
                            [r0 EXCEPT !.code = CodeParamErr, !.msg = "not found"]]
               /\ pc' = [pc EXCEPT ![p] = "ret"]
               /\ UNCHANGED claims
          ELSE /\ req' = [req EXCEPT ![p] =
                            [r0 EXCEPT !.session = found]]
               /\ pc' = [pc EXCEPT ![p] = "delete"]
               /\ claims' = [claims EXCEPT ![key] = @ + 1]
    /\ UNCHANGED <<cache, users>>

\* _ = cache.Deletes([]string{callbackKey}, "callback_")
DeleteSession(p) ==
    /\ pc[p] = "delete"
    /\ cache' = CacheDeletes(cache, req[p].key)
    /\ pc' = [pc EXCEPT ![p] = "user"]
    /\ UNCHANGED <<users, req, claims>>

\* user lookup, policy check, return to the calling middleware
FindUser(p) ==
    /\ pc[p] = "user"
    /\ LET r == CheckUser(req[p].session, users)
       IN req' = [req EXCEPT ![p] =
                    [@ EXCEPT !.code = r.code, !.msg = r.msg,
                              !.hasUser = r.hasUser, !.userLoaded = r.userLoaded,
                              !.userPolicy = r.userPolicy]]
    /\ pc' = [pc EXCEPT ![p] = "ret"]
    /\ UNCHANGED <<cache, users, claims>>

\* RemoteCallbackAuth / QiniuCallbackAuth after uploadCallbackCheck returned:
\* abort on a non-zero code, else verify the signature with the user's policy
\* keys (a nil user would be dereferenced here)
Authorize(p, sigOK) ==
    /\ pc[p] = "ret"
    /\ req' = [req EXCEPT ![p] =
          IF req[p].code # CodeOK THEN [@ EXCEPT !.outcome = "rejected"]
          ELSE IF ~req[p].hasUser THEN [@ EXCEPT !.outcome = "nil user dereferenced"]
          ELSE IF ~sigOK THEN [@ EXCEPT !.outcome = "rejected"]
          ELSE [@ EXCEPT !.outcome = "admitted"]]
    /\ pc' = [pc EXCEPT ![p] = "done"]
    /\ UNCHANGED <<cache, users, claims>>

\* the request is over; the worker serves the next one
Finish(p) ==
    /\ pc[p] = "done"
    /\ pc' = [pc EXCEPT ![p] = "idle"]
    /\ req' = [req EXCEPT ![p] = IdleReq]
    /\ UNCHANGED <<cache, users, claims>>

InCheck(p) == pc[p] \in {"delete", "user"}

NextCallback ==
    \/ \E k \in CacheKeys, u \in UIDs :
          StoreSession(k, u) /\ UNCHANGED outsideCallback
    \/ \E u \in UIDs, v \in {NoUser} \cup PolicyIDs :
          SetUser(u, v) /\ UNCHANGED outsideCallback
    \/ \E p \in Reqs, k \in ParamKeys :
          Begin(p, k) /\ UNCHANGED outsideCallback
    \/ \E p \in Reqs : DeleteSession(p) /\ UNCHANGED outsideCallback
    \/ \E p \in Reqs : FindUser(p) /\ UNCHANGED outsideCallback
    \/ \E p \in Reqs, sigOK \in BOOLEAN :
          Authorize(p, sigOK) /\ UNCHANGED outsideCallback
    \/ \E p \in Reqs : Finish(p) /\ UNCHANGED outsideCallback

SpecCallback == InitCallback /\ [][NextCallback]_vars

\* callback attempts one after another: a request enters uploadCallbackCheck
\* only while no other request is inside it
NextCallbackSeq ==
    \/ \E k \in CacheKeys, u \in UIDs :
          StoreSession(k, u) /\ UNCHANGED outsideCallback
    \/ \E u \in UIDs, v \in {NoUser} \cup PolicyIDs :
          SetUser(u, v) /\ UNCHANGED outsideCallback
    \/ \E p \in Reqs, k \in ParamKeys :
          /\ \A q \in Reqs \ {p} : ~InCheck(q)
          /\ Begin(p, k) /\ UNCHANGED outsideCallback
    \/ \E p \in Reqs : DeleteSession(p) /\ UNCHANGED outsideCallback
    \/ \E p \in Reqs : FindUser(p) /\ UNCHANGED outsideCallback
    \/ \E p \in Reqs, sigOK \in BOOLEAN :
          Authorize(p, sigOK) /\ UNCHANGED outsideCallback
    \/ \E p \in Reqs : Finish(p) /\ UNCHANGED outsideCallback

SpecCallbackSeq == InitCallback /\ [][NextCallbackSeq]_vars

----------------------------------------------------------------------------
(* Claims on the upload-callback middleware *)

\* C5: of the callback requests presenting the same key, at most one finds
\* the session stored under it (and goes on to the user, policy and signature
\* checks); every other one gets the not-found error.  Stated for any
\* interleaving of the requests' cache.Get and cache.Deletes steps.
SessionClaimedOnce == \A k \in CacheKeys : claims[k] <= 1

CallbackPolicyCheck ==
    \A p \in Reqs :
        pc[p] \in {"ret", "done"} =>
            /\ (req[p].userLoaded /\ req[p].userPolicy # req[p].session.PolicyID) =>
                  (req[p].code = CodePolicyNotAllowed /\ ~req[p].hasUser)
            /\ req[p].hasUser =>
                  (/\ req[p].userLoaded
                   /\ req[p].session.present
                   /\ req[p].userPolicy = req[p].session.PolicyID)
            /\ req[p].hasUser <=> (req[p].code = CodeOK)
            /\ req[p].outcome # "nil user dereferenced"

\* the user's policy changed between session creation and the callback, and
\* the callback was rejected for it
CallbackRejectedForPolicy ==
    \E p \in Reqs :
        /\ pc[p] = "done"
        /\ req[p].userLoaded
        /\ req[p].userPolicy # req[p].session.PolicyID
        /\ req[p].code = CodePolicyNotAllowed
        /\ req[p].outcome = "rejected"

-----------------------------------------------------------------------------
\* The authentication gates of the middleware chain (SignRequired,
\* CurrentUser, AuthRequired, WebDAVAuth).  A gate reads the request and the
\* context, possibly stores the user in the context, and then either calls
\* c.Next() or writes a response and calls c.Abort().

StatusOK == 200
StatusUnauthorized == 401
StatusForbidden == 403
NoStatus == 0
NoBody == -1

Methods == {"GET", "PUT", "POST", "PATCH", "DELETE", "OPTIONS"}

\* what c.Get("user") can hold: nothing, a *model.User, a value of another type
UserKinds == {"nil", "*model.User", "other"}

SessionUIDs == {"nil", "1"}

\* the middleware installed in front of a handler
Chains == {<<"SignRequired">>, <<"WebDAVAuth">>, <<"AuthRequired">>,
           <<"CurrentUser", "AuthRequired">>,
           <<"SignRequired", "CurrentUser", "AuthRequired">>}

\* what a gate did: called c.Next(), called c.Abort(), the context user it
\* left, the HTTP status and the JSON code it wrote
GateOut(next, abort, user, status, code) ==
    [next |-> next, abort |-> abort, user |-> user, status |-> status,
     code |-> code]

Admit(user) == GateOut(TRUE, FALSE, user, NoStatus, NoBody)

AlwaysCheckURI(method) == "CheckURI"

\* the switch on c.Request.Method
SignatureCheck(method) ==
    IF method \in {"PUT", "POST"} THEN "CheckRequest" ELSE "CheckURI"

\* requestErr, uriErr: whether auth.CheckRequest / auth.CheckURI would
\* return an error for this request
SignRequired(user, method, requestErr, uriErr) ==
    LET err == IF SignatureCheck(method) = "CheckRequest"
               THEN requestErr ELSE uriErr
    IN  IF err
        THEN GateOut(FALSE, TRUE, user, StatusOK, CodeCheckLogin)
        ELSE Admit(user)

\* uid: session.Get("user_id"); resolves: model.GetUserByID returns no error
CurrentUser(user, uid, resolves) ==
    IF uid # "nil" /\ resolves
    THEN Admit("*model.User")
    ELSE Admit(user)

AuthRequiredAnyValue(user) ==
    IF user # "nil"
    THEN Admit(user)
    ELSE GateOut(FALSE, TRUE, user, StatusOK, CodeCheckLogin)

AuthRequired(user) ==
    IF user # "nil" /\ user = "*model.User"
    THEN Admit(user)
    ELSE GateOut(FALSE, TRUE, user, StatusOK, CodeCheckLogin)

WebDAVAuthNoGroupCheck(user, method, hasBasic, userFound, passwordOK, webdavEnabled) ==
    IF method = "OPTIONS" THEN Admit(user)
    ELSE IF ~hasBasic \/ ~userFound \/ ~passwordOK
    THEN GateOut(FALSE, TRUE, user, StatusUnauthorized, NoBody)
    ELSE Admit("*model.User")

\* hasBasic: c.Request.BasicAuth() ok; userFound: model.GetUserByEmail
\* returns no error; passwordOK: CheckPassword; webdavEnabled: the group flag
WebDAVAuth(user, method, hasBasic, userFound, passwordOK, webdavEnabled) ==
    IF method = "OPTIONS" THEN Admit(user)
    ELSE IF ~hasBasic
    THEN GateOut(FALSE, TRUE, user, StatusUnauthorized, NoBody)
    ELSE IF ~userFound
    THEN GateOut(FALSE, TRUE, user, StatusUnauthorized, NoBody)
    ELSE IF ~passwordOK
    THEN GateOut(FALSE, TRUE, user, StatusUnauthorized, NoBody)
    ELSE IF ~webdavEnabled
    THEN GateOut(FALSE, TRUE, user, StatusForbidden, NoBody)
    ELSE Admit("*model.User")

\* the next entry of the chain is the gate `name` and it is due to run
GateDue(name) ==
    /\ gin.idx <= Len(gin.chain)
    /\ gin.chain[gin.idx] = name
    /\ ~gin.aborted

\* the context after a gate ran; `in` are the inputs it read
AfterGate(name, in, out) ==
    [gin EXCEPT !.idx = @ + 1,
                !.aborted = out.abort,
                !.user = out.user,
                !.ran = Append(@, name),
                !.last = [gate |-> name, in |-> in, userBefore |-> gin.user,
                          out |-> out]]

\* a request enters a route; user0 is what earlier handlers of the route
\* left under the "user" key
NewRequest(chain, user0) ==
    gin' = [chain |-> chain, idx |-> 1, aborted |-> FALSE, user |-> user0,
            ran |-> <<>>, last |-> [gate |-> "none"]]

RunSignRequired(method, requestErr, uriErr) ==
    /\ GateDue("SignRequired")
    /\ gin' = AfterGate("SignRequired",
                        [method |-> method, requestErr |-> requestErr,
                         uriErr |-> uriErr,
                         check |-> SignatureCheck(method)],
                        SignRequired(gin.user, method, requestErr, uriErr))

RunCurrentUser(uid, resolves) ==
    /\ GateDue("CurrentUser")
    /\ gin' = AfterGate("CurrentUser", [uid |-> uid, resolves |-> resolves],
                        CurrentUser(gin.user, uid, resolves))

RunAuthRequired ==
    /\ GateDue("AuthRequired")
    /\ gin' = AfterGate("AuthRequired", [user |-> gin.user],
                        AuthRequired(gin.user))

RunWebDAVAuth(method, hasBasic, userFound, passwordOK, webdavEnabled) ==
    /\ GateDue("WebDAVAuth")
    /\ gin' = AfterGate("WebDAVAuth",
                        [method |-> method, hasBasic |-> hasBasic,
                         userFound |-> userFound, passwordOK |-> passwordOK,
                         webdavEnabled |-> webdavEnabled],
                        WebDAVAuth(gin.user, method, hasBasic, userFound,
                                   passwordOK, webdavEnabled))

\* the route's handler runs once every gate has called c.Next()
RunHandler ==
    /\ gin.chain # <<>>
    /\ gin.idx = Len(gin.chain) + 1
    /\ ~gin.aborted
    /\ gin' = [gin EXCEPT !.idx = @ + 1, !.ran = Append(@, "handler")]

outsideGates == <<hookVars, cbVars, thumbVars, recordVars>>

InitGates == InitHooks /\ CallbackIdle /\ GatesIdle /\ ThumbIdle /\ RecordsIdle

NextGates ==
    \/ \E chain \in Chains, user0 \in {"nil", "other"} :
          NewRequest(chain, user0) /\ UNCHANGED outsideGates
    \/ \E method \in Methods, requestErr \in BOOLEAN, uriErr \in BOOLEAN :
          RunSignRequired(method, requestErr, uriErr) /\ UNCHANGED outsideGates
    \/ \E uid \in SessionUIDs, resolves \in BOOLEAN :
          RunCurrentUser(uid, resolves) /\ UNCHANGED outsideGates
    \/ RunAuthRequired /\ UNCHANGED outsideGates
    \/ \E method \in Methods, hasBasic \in BOOLEAN, userFound \in BOOLEAN,
          passwordOK \in BOOLEAN, webdavEnabled \in BOOLEAN :
          RunWebDAVAuth(method, hasBasic, userFound, passwordOK, webdavEnabled)
          /\ UNCHANGED outsideGates
    \/ RunHandler /\ UNCHANGED outsideGates

SpecGates == InitGates /\ [][NextGates]_vars

\* C11: WebDAVAuth admits every OPTIONS request without looking at
\* credentials; any other method is admitted, with the user stored in the
\* context, exactly when basic credentials are present, the user exists, the
\* password verifies and the group has WebDAV enabled; otherwise the request
\* is aborted with a bare status and no user stored: 401 for missing
\* credentials, unknown user or bad password, 403 for the disabled capability.
WebDAVAuthDecision ==
    gin.last.gate = "WebDAVAuth" =>
        LET in == gin.last.in
            out == gin.last.out
            credsOK == in.hasBasic /\ in.userFound /\ in.passwordOK
        IN  /\ in.method = "OPTIONS" =>
                /\ out.next /\ ~out.abort
                /\ out.status = NoStatus
                /\ gin.user = gin.last.userBefore
            /\ in.method # "OPTIONS" =>
                /\ out.next <=> (credsOK /\ in.webdavEnabled)
                /\ out.next => (~out.abort /\ gin.user = "*model.User")
                /\ ~out.next =>
                    /\ out.abort
                    /\ gin.aborted
                    /\ out.code = NoBody
                    /\ gin.user = gin.last.userBefore
                    /\ "handler" \notin {gin.ran[i] : i \in DOMAIN gin.ran}
                    /\ out.status = IF credsOK THEN StatusForbidden
                                    ELSE StatusUnauthorized

\* correct credentials, WebDAV disabled on the group: 403
WebDAVCapabilityDisabled ==
    /\ gin.last.gate = "WebDAVAuth"
    /\ gin.last.in.method = "PUT"
    /\ gin.last.in.hasBasic /\ gin.last.in.userFound /\ gin.last.in.passwordOK
    /\ ~gin.last.in.webdavEnabled
    /\ gin.last.out.status = StatusForbidden
    /\ gin.aborted

\* the methods that change a resource
MutatingMethods == {"PUT", "POST", "PATCH", "DELETE"}

\* the HTTP methods for which SignRequired checks the whole request
FullRequestMethods == {"PUT", "POST"}

\* the handler ran for the request in the context
HandlerRan == "handler" \in {gin.ran[i] : i \in DOMAIN gin.ran}

\* SignRequired verified with `check` for the methods in `full` and with the
\* URI check for the others, admitted exactly when that verification gave no
\* error, and otherwise answered with the check-login code and aborted
SignRequiredVerifies(full) ==
    gin.last.gate = "SignRequired" =>
        LET in == gin.last.in
            out == gin.last.out
            err == IF in.method \in full THEN in.requestErr ELSE in.uriErr
        IN  /\ in.method \in full => in.check = "CheckRequest"
            /\ in.method \notin full => in.check = "CheckURI"
            /\ out.next <=> ~err
            /\ out.next => ~out.abort
            /\ err =>
                /\ out.abort
                /\ gin.aborted
                /\ out.code = CodeCheckLogin
                /\ ~HandlerRan

SessionGates ==
    /\ gin.last.gate = "CurrentUser" =>
        LET in == gin.last.in
            out == gin.last.out
        IN  /\ out.next /\ ~out.abort /\ ~gin.aborted
            /\ out.status = NoStatus
            /\ gin.user = IF in.uid # "nil" /\ in.resolves
                          THEN "*model.User" ELSE gin.last.userBefore
    /\ gin.last.gate = "AuthRequired" =>
        LET out == gin.last.out
        IN  /\ out.next <=> gin.last.userBefore = "*model.User"
            /\ out.next <=> ~out.abort
            /\ gin.user = gin.last.userBefore
            /\ ~out.next =>
                /\ gin.aborted
                /\ out.status = StatusOK
                /\ out.code = CodeCheckLogin
                /\ ~HandlerRan

\* the session's user id did not resolve, CurrentUser went on, and
\* AuthRequired rejected the request
UnresolvedSessionRejected ==
    /\ gin.chain = <<"CurrentUser", "AuthRequired">>
    /\ gin.ran = <<"CurrentUser", "AuthRequired">>
    /\ gin.last.gate = "AuthRequired"
    /\ gin.last.userBefore = "nil"
    /\ gin.last.out.abort
    /\ gin.aborted

-----------------------------------------------------------------------------
\* HookGenerateThumb: the caller locks fs.recycleLock and starts a goroutine
\* that deletes the stale thumbnail, generates the new one and unlocks.
\* The FileHeader is taken to be bound to a *model.File, as it is after
\* GenericAfterUpload.

AlwaysCanLock(lock, f) == TRUE

\* sync.Mutex.Lock returns only while the mutex is unlocked
CanLock(lock, f) == ~lock[f]

Lock(lock, f) == [lock EXCEPT ![f] = TRUE]

UnlockNothing(lock, f) == lock

\* defer fs.recycleLock.Unlock()
Unlock(lock, f) == [lock EXCEPT ![f] = FALSE]

TasksOf(f) == {t \in tasks : t.fs = f}

\* callers of f that entered the hook and have not locked yet
WaitingOn(f) == {c \in Callers : caller[c].pc = "lock" /\ caller[c].fs = f}

\* the hook is called on FileSystem f: the policy test
HookGenerateThumb(c, f) ==
    /\ caller[c].pc = "idle"
    /\ lockOps[f].Lock + Cardinality(WaitingOn(f)) < MaxCalls
    /\ caller' = [caller EXCEPT ![c] =
                    [pc |-> IF thumbNeeded[f] THEN "lock" ELSE "return",
                     fs |-> f]]
    /\ UNCHANGED <<recycleLock, thumbNeeded, tasks, lockOps>>

\* fs.recycleLock.Lock() returns and the goroutine is started
LockAndGo(c) ==
    LET f == caller[c].fs
    IN  /\ caller[c].pc = "lock"
        /\ CanLock(recycleLock, f)
        /\ recycleLock' = Lock(recycleLock, f)
        /\ tasks' = tasks \cup {[fs |-> f, id |-> lockOps[f].Lock + 1,
                                 stage |-> "delete", deleted |-> FALSE,
                                 generated |-> FALSE]}
        /\ lockOps' = [lockOps EXCEPT ![f].Lock = @ + 1]
        /\ caller' = [caller EXCEPT ![c].pc = "return"]
        /\ UNCHANGED thumbNeeded

\* return nil
ReturnNil(c) ==
    /\ caller[c].pc = "return"
    /\ caller' = [caller EXCEPT ![c] = IdleCaller]
    /\ UNCHANGED <<recycleLock, thumbNeeded, tasks, lockOps>>

\* _, _ = fs.Handler.Delete(...): returns, with or without an error
TaskDelete(t, ok) ==
    /\ t \in tasks
    /\ t.stage = "delete"
    /\ tasks' = (tasks \ {t}) \cup {[t EXCEPT !.stage = "generate",
                                               !.deleted = ok]}
    /\ UNCHANGED <<recycleLock, thumbNeeded, caller, lockOps>>

\* fs.GenerateThumbnail(ctx, fileMode): returns, with or without a thumbnail
TaskGenerate(t, ok) ==
    /\ t \in tasks
    /\ t.stage = "generate"
    /\ tasks' = (tasks \ {t}) \cup {[t EXCEPT !.stage = "unlock",
                                               !.generated = ok]}
    /\ UNCHANGED <<recycleLock, thumbNeeded, caller, lockOps>>

\* the deferred Unlock runs and the goroutine ends
TaskUnlock(t) ==
    /\ t \in tasks
    /\ t.stage = "unlock"
    /\ recycleLock' = Unlock(recycleLock, t.fs)
    /\ tasks' = tasks \ {t}
    /\ lockOps' = [lockOps EXCEPT ![t.fs].Unlock = @ + 1]
    /\ UNCHANGED <<thumbNeeded, caller>>

TaskStep(f) ==
    \E t \in TasksOf(f) :
        \/ \E ok \in BOOLEAN : TaskDelete(t, ok)
        \/ \E ok \in BOOLEAN : TaskGenerate(t, ok)
        \/ TaskUnlock(t)

outsideThumb == <<hookVars, cbVars, gateVars, recordVars>>

InitThumb ==
    /\ InitHooks
    /\ fsPolicy.MaxSize = 0
    /\ CallbackIdle
    /\ GatesIdle
    /\ NoThumbCalls
    /\ thumbNeeded \in [FSs -> BOOLEAN]
    /\ RecordsIdle

NextThumb ==
    \/ \E c \in Callers, f \in FSs :
          HookGenerateThumb(c, f) /\ UNCHANGED outsideThumb
    \/ \E c \in Callers : LockAndGo(c) /\ UNCHANGED outsideThumb
    \/ \E c \in Callers : ReturnNil(c) /\ UNCHANGED outsideThumb
    \/ \E t \in tasks, ok \in BOOLEAN : TaskDelete(t, ok) /\ UNCHANGED outsideThumb
    \/ \E t \in tasks, ok \in BOOLEAN : TaskGenerate(t, ok) /\ UNCHANGED outsideThumb
    \/ \E t \in tasks : TaskUnlock(t) /\ UNCHANGED outsideThumb

SpecThumb == InitThumb /\ [][NextThumb]_vars

\* C15: HookGenerateThumb never makes its caller wait for a thumbnail
\* regeneration: a caller inside the hook is never held at the lock while a
\* background task started by an earlier call on the same FileSystem still
\* runs.
ForegroundNeverWaits ==
    \A c \in Callers :
        caller[c].pc = "lock" => ~recycleLock[caller[c].fs]

\* a second call on a FileSystem whose first regeneration is still running
\* is held at the lock
SecondCallHeldAtLock ==
    \E c \in Callers :
        /\ caller[c].pc = "lock"
        /\ recycleLock[caller[c].fs]
        /\ \E t \in TasksOf(caller[c].fs) : t.stage = "generate"

\* C16: under any interleaving at most one background regeneration runs per
\* FileSystem instance; a caller of one instance is never held by the lock
\* of another; when the policy does not require thumbnails the hook takes no
\* lock and starts no background task.
OneRegenerationPerFileSystem ==
    /\ \A f \in FSs : Cardinality(TasksOf(f)) <= 1
    /\ \A c \in Callers :
          (caller[c].pc = "lock" /\ ~recycleLock[caller[c].fs]) =>
              ENABLED LockAndGo(c)
    /\ \A f \in FSs :
          ~thumbNeeded[f] =>
              /\ ~recycleLock[f]
              /\ TasksOf(f) = {}
              /\ lockOps[f].Lock = 0
              /\ WaitingOn(f) = {}

\* two FileSystem instances regenerate at the same time
TwoFileSystemsRegenerate ==
    /\ TasksOf("fs1") # {}
    /\ TasksOf("fs2") # {}
    /\ \E c \in Callers : caller[c].pc = "return"

\* the goroutines make progress (delete and generate return), and a caller
\* blocked in Lock gets the mutex when it is unlocked again and again
\* (sync.Mutex hands the lock to a starving waiter)
FairThumb ==
    /\ \A f \in FSs : WF_vars(TaskStep(f) /\ UNCHANGED outsideThumb)
    /\ \A c \in Callers : SF_vars(LockAndGo(c) /\ UNCHANGED outsideThumb)

SpecThumbFair == InitThumb /\ [][NextThumb]_vars /\ FairThumb

\* every Lock call is matched by a task that holds the lock or by one Unlock
LockBalanced ==
    \A f \in FSs :
        /\ lockOps[f].Lock - lockOps[f].Unlock = Cardinality(TasksOf(f))
        /\ lockOps[f].Lock - lockOps[f].Unlock
               = IF recycleLock[f] THEN 1 ELSE 0

\* C20: every acquisition of recycleLock by HookGenerateThumb is matched by
\* exactly one release, made inside the background task, which happens
\* whether the delete and the generation succeed or fail; the lock is never
\* held forever, so a later HookGenerateThumb call on the same FileSystem
\* eventually acquires it.
RecycleLockReleased ==
    /\ []LockBalanced
    /\ [][\A f \in FSs :
            lockOps'[f].Unlock # lockOps[f].Unlock =>
                /\ lockOps'[f].Unlock = lockOps[f].Unlock + 1
                /\ recycleLock[f] /\ ~recycleLock'[f]
                /\ \E t \in TasksOf(f) : t.stage = "unlock" /\ tasks' = tasks \ {t}
         ]_vars
    /\ \A f \in FSs : recycleLock[f] ~> ~recycleLock[f]
    /\ \A c \in Callers : (caller[c].pc = "lock") ~> (caller[c].pc = "return")

\* a second task on a FileSystem, started after the first one unlocked, is
\* about to unlock although its delete and its generation both failed
FailedTaskAboutToUnlock ==
    \E t \in tasks :
        /\ t.stage = "unlock"
        /\ ~t.deleted /\ ~t.generated
        /\ t.id = 2
        /\ lockOps[t.fs].Unlock = 1
        /\ recycleLock[t.fs]

-----------------------------------------------------------------------------
\* The hooks that read the original file record from the context or write
\* file records: HookResetPolicy, HookValidateCapacityDiff, HookClearFileSize,
\* HookUpdateSourceName, GenericAfterUpdate, GenericAfterUpload, and the two
\* clean-up hooks SlaveAfterUpload and HookDeleteTempFile.

ErrFileExisted == "ErrFileExisted"
ErrFileUploadSessionExisted == "ErrFileUploadSessionExisted"
ErrInsertFileRecord == "ErrInsertFileRecord"
\* errors of collaborators, returned as they are
ErrCreateDirectory == "CreateDirectory error"
ErrUpdateRecord == "record update error"
ErrRemoteCallback == "RemoteCallback error"

NoModel == [bound |-> FALSE]

UploadNames == {"a.txt", "b.txt"}
SessionIDs == {"nil", "s1"}
Callbacks == {"", "http://master/callback"}

\* file records of one folder
FileRecs == [Name : {"a.txt"}, Size : Sizes, PolicyID : PolicyIDs,
             UploadSessionID : SessionIDs, SourceName : {"src1"}]

UploadHeaders == [Size : Sizes, FileName : UploadNames, AppendStart : {0},
                  Model : {NoModel}]

\* the model.File value stored under fsctx.FileModelCtx
OriginOf(r) ==
    [present |-> TRUE, Size |-> r.Size, Name |-> r.Name,
     PolicyID |-> r.PolicyID, SourceName |-> r.SourceName]

\* model.File.GetPolicy
GetPolicy(origin) == [ID |-> origin.PolicyID]

\* FileSystem.DispatchHandler: the driver of the policy's type
DispatchHandler(policy) ==
    [handler |-> IF policy.ID = 1 THEN "local" ELSE "remote", err |-> NoErr]

\* FileSystem.IsChildFileExist
IsChildFileExist(d, name) == \E r \in d : r.Name = name

ChildFile(d, name) == CHOOSE r \in d : r.Name = name

\* FileSystem.AddFile: the record of the uploaded file
NewRecord(f, policy) ==
    [Name |-> f.FileName, Size |-> f.Size, PolicyID |-> policy.ID,
     UploadSessionID |-> "nil", SourceName |-> "src1"]

\* model.File.UpdateSize / UpdateSourceName on the record named `name`
DbUpdateSize(d, name, size) ==
    {IF r.Name = name THEN [r EXCEPT !.Size = size] ELSE r : r \in d}

DbUpdateSourceName(d, name, src) ==
    {IF r.Name = name THEN [r EXCEPT !.SourceName = src] ELSE r : r \in d}

Bind(r) == [bound |-> TRUE, rec |-> r]

\* what a hook returned and what it left behind
RecResult(err, f, d, policy, handler, calls) ==
    [err |-> err, file |-> f, db |-> d, policy |-> policy,
     handler |-> handler, calls |-> calls]

HookResetPolicy(ctx, f, d, policy, handler) ==
    IF ~ctx.present
    THEN RecResult(ErrObjectNotExist, f, d, policy, handler, <<>>)
    ELSE LET p == GetPolicy(ctx)
             h == DispatchHandler(p)
         IN  RecResult(h.err, f, d, p, h.handler,
                       <<"fs.Policy =", "DispatchHandler">>)

\* HookValidateCapacityDiff as a record hook: it changes nothing
ValidateCapacityDiff(ctx, user, f, d, policy, handler) ==
    LET r == HookValidateCapacityDiff(ctx, user, f)
    IN  RecResult(r.err, r.file, d, policy, handler, r.calls)

HookClearFileSize(ctx, f, d, policy, handler, updateErr) ==
    IF ~ctx.present
    THEN RecResult(ErrObjectNotExist, f, d, policy, handler, <<>>)
    ELSE IF updateErr
    THEN RecResult(ErrUpdateRecord, f, d, policy, handler, <<"UpdateSize">>)
    ELSE RecResult(NoErr, f, DbUpdateSize(d, ctx.Name, 0), policy, handler,
                   <<"UpdateSize">>)

HookUpdateSourceName(ctx, f, d, policy, handler, updateErr) ==
    IF ~ctx.present
    THEN RecResult(ErrObjectNotExist, f, d, policy, handler, <<>>)
    ELSE IF updateErr
    THEN RecResult(ErrUpdateRecord, f, d, policy, handler,
                   <<"UpdateSourceName">>)
    ELSE RecResult(NoErr, f, DbUpdateSourceName(d, ctx.Name, ctx.SourceName),
                   policy, handler, <<"UpdateSourceName">>)

GenericAfterUpdate(ctx, f, d, policy, handler, updateErr) ==
    IF ~ctx.present
    THEN RecResult(ErrObjectNotExist, f, d, policy, handler, <<>>)
    ELSE LET bound == [f EXCEPT !.Model = Bind(ctx)]
         IN  IF updateErr
             THEN RecResult(ErrUpdateRecord, bound, d, policy, handler,
                            <<"SetModel", "UpdateSize">>)
             ELSE RecResult(NoErr, bound, DbUpdateSize(d, ctx.Name, f.Size),
                            policy, handler, <<"SetModel", "UpdateSize">>)

GenericAfterUploadBindsAlways(f, d, policy, handler, dirErr, addErr) ==
    IF dirErr
    THEN RecResult(ErrCreateDirectory, f, d, policy, handler,
                   <<"CreateDirectory">>)
    ELSE IF IsChildFileExist(d, f.FileName)
    THEN RecResult(IF ChildFile(d, f.FileName).UploadSessionID # "nil"
                   THEN ErrFileUploadSessionExisted ELSE ErrFileExisted,
                   f, d, policy, handler,
                   <<"CreateDirectory", "IsChildFileExist">>)
    ELSE IF addErr
    THEN RecResult(ErrInsertFileRecord,
                   [f EXCEPT !.Model = Bind(NewRecord(f, policy))],
                   d, policy, handler,
                   <<"CreateDirectory", "IsChildFileExist", "AddFile",
                     "SetModel">>)
    ELSE RecResult(NoErr, [f EXCEPT !.Model = Bind(NewRecord(f, policy))],
                   d \cup {NewRecord(f, policy)}, policy, handler,
                   <<"CreateDirectory", "IsChildFileExist", "AddFile",
                     "SetModel">>)

\* dirErr: fs.CreateDirectory fails; addErr: fs.AddFile fails
GenericAfterUpload(f, d, policy, handler, dirErr, addErr) ==
    IF dirErr
    THEN RecResult(ErrCreateDirectory, f, d, policy, handler,
                   <<"CreateDirectory">>)
    ELSE IF IsChildFileExist(d, f.FileName)
    THEN RecResult(IF ChildFile(d, f.FileName).UploadSessionID # "nil"
                   THEN ErrFileUploadSessionExisted ELSE ErrFileExisted,
                   f, d, policy, handler,
                   <<"CreateDirectory", "IsChildFileExist">>)
    ELSE IF addErr
    THEN RecResult(ErrInsertFileRecord, f, d, policy, handler,
                   <<"CreateDirectory", "IsChildFileExist", "AddFile">>)
    ELSE RecResult(NoErr, [f EXCEPT !.Model = Bind(NewRecord(f, policy))],
                   d \cup {NewRecord(f, policy)}, policy, handler,
                   <<"CreateDirectory", "IsChildFileExist", "AddFile",
                     "SetModel">>)

\* thumbOK: fs.GenerateThumbnail produced a thumbnail (it returns nothing);
\* callbackErr: cluster.RemoteCallback returns an error
SlaveAfterUpload(callback, f, d, policy, handler, thumbOK, callbackErr) ==
    IF callback = ""
    THEN RecResult(NoErr, f, d, policy, handler, <<"GenerateThumbnail">>)
    ELSE RecResult(IF callbackErr THEN ErrRemoteCallback ELSE NoErr,
                   f, d, policy, handler,
                   <<"GenerateThumbnail", "RemoteCallback">>)

\* deleteErr: fs.Handler.Delete returns an error (logged)
HookDeleteTempFile(f, d, policy, handler, deleteErr) ==
    RecResult(NoErr, f, d, policy, handler,
              IF deleteErr THEN <<"Delete", "Log">> ELSE <<"Delete">>)

\* the state after a record hook returned r
Returned(name, in, r) ==
    /\ op' = name
    /\ env' = in
    /\ ret' = r.err
    /\ file' = r.file
    /\ db' = r.db
    /\ fsPolicy' = r.policy
    /\ fsHandler' = r.handler
    /\ trace' = r.calls
    /\ UNCHANGED <<Hooks, registered, opName, fsUser, ctxFile, fileIn,
                   fileModel>>

ApplyResetPolicy ==
    Returned("HookResetPolicy", [call |-> "HookResetPolicy"],
             HookResetPolicy(ctxFile, file, db, fsPolicy, fsHandler))

ApplyCapacityDiff ==
    Returned("HookValidateCapacityDiff", [call |-> "HookValidateCapacityDiff"],
             ValidateCapacityDiff(ctxFile, fsUser, file, db, fsPolicy,
                                  fsHandler))

ApplyClearFileSize(updateErr) ==
    Returned("HookClearFileSize",
             [call |-> "HookClearFileSize", updateErr |-> updateErr],
             HookClearFileSize(ctxFile, file, db, fsPolicy, fsHandler,
                               updateErr))

ApplyUpdateSourceName(updateErr) ==
    Returned("HookUpdateSourceName",
             [call |-> "HookUpdateSourceName", updateErr |-> updateErr],
             HookUpdateSourceName(ctxFile, file, db, fsPolicy, fsHandler,
                                  updateErr))

ApplyGenericAfterUpdate(updateErr) ==
    Returned("GenericAfterUpdate",
             [call |-> "GenericAfterUpdate", updateErr |-> updateErr],
             GenericAfterUpdate(ctxFile, file, db, fsPolicy, fsHandler,
                                updateErr))

ApplyGenericAfterUpload(dirErr, addErr) ==
    Returned("GenericAfterUpload",
             [call |-> "GenericAfterUpload", dirErr |-> dirErr,
              addErr |-> addErr],
             GenericAfterUpload(file, db, fsPolicy, fsHandler, dirErr, addErr))

ApplySlaveAfterUpload(callback, thumbOK, callbackErr) ==
    Returned("SlaveAfterUpload",
             [call |-> "SlaveAfterUpload", Callback |-> callback,
              thumbOK |-> thumbOK, callbackErr |-> callbackErr],
             SlaveAfterUpload(callback, file, db, fsPolicy, fsHandler,
                              thumbOK, callbackErr))

ApplyDeleteTempFile(deleteErr) ==
    Returned("HookDeleteTempFile",
             [call |-> "HookDeleteTempFile", deleteErr |-> deleteErr],
             HookDeleteTempFile(file, db, fsPolicy, fsHandler, deleteErr))

outsideRecords == <<cbVars, gateVars, thumbVars>>

\* the folder holds no record or one; the context holds that record or none
InitRecordHooks ==
    /\ HooksIdle
    /\ op = "init"
    /\ trace = <<>>
    /\ ret = NoErr
    /\ fsUser = [Remaining |-> 0]
    /\ fileModel = [Size |-> 0]
    /\ fileIn \in UploadHeaders
    /\ file = fileIn
    /\ db \in {{}} \cup {{r} : r \in FileRecs}
    /\ ctxFile \in {NoFile} \cup {OriginOf(r) : r \in db}
    /\ fsPolicy \in [ID : PolicyIDs]
    /\ fsHandler = DispatchHandler(fsPolicy).handler
    /\ env = NoEnv
    /\ CallbackIdle
    /\ GatesIdle
    /\ ThumbIdle

NextRecordHooks ==
    \/ ApplyResetPolicy /\ UNCHANGED outsideRecords
    \/ ApplyCapacityDiff /\ UNCHANGED outsideRecords
    \/ \E updateErr \in BOOLEAN :
          ApplyClearFileSize(updateErr) /\ UNCHANGED outsideRecords
    \/ \E updateErr \in BOOLEAN :
          ApplyUpdateSourceName(updateErr) /\ UNCHANGED outsideRecords
    \/ \E updateErr \in BOOLEAN :
          ApplyGenericAfterUpdate(updateErr) /\ UNCHANGED outsideRecords
    \/ \E dirErr \in BOOLEAN, addErr \in BOOLEAN :
          ApplyGenericAfterUpload(dirErr, addErr) /\ UNCHANGED outsideRecords
    \/ \E callback \in Callbacks, thumbOK \in BOOLEAN, callbackErr \in BOOLEAN :
          ApplySlaveAfterUpload(callback, thumbOK, callbackErr)
          /\ UNCHANGED outsideRecords
    \/ \E deleteErr \in BOOLEAN :
          ApplyDeleteTempFile(deleteErr) /\ UNCHANGED outsideRecords

SpecRecordHooks == InitRecordHooks /\ [][NextRecordHooks]_vars

\* C17: SlaveAfterUpload returns nil when thumbnail generation fails,
\* returns nil without sending anything when the callback URL is empty, and
\* returns nil when the notification to a non-empty callback URL fails;
\* HookDeleteTempFile returns nil when the driver's delete fails.
BestEffortHooksReturnNil ==
    /\ op = "SlaveAfterUpload" =>
          /\ ret = NoErr
          /\ env.Callback = "" =>
                "RemoteCallback" \notin {trace[i] : i \in DOMAIN trace}
    /\ op = "HookDeleteTempFile" => ret = NoErr

\* C18: GenericAfterUpload inserts a record and binds it to the FileHeader
\* only when the directory resolves and the folder has no child of that
\* name; when such a child exists it inserts nothing, leaves the FileHeader
\* as it was and returns ErrFileUploadSessionExisted if the child carries an
\* upload-session id and ErrFileExisted otherwise; when the insert fails it
\* returns ErrInsertFileRecord and binds nothing.
AfterUploadInsertsAndBinds ==
    [][op' = "GenericAfterUpload" =>
        LET exists == \E r \in db : r.Name = file.FileName
            inProgress == \E r \in db : /\ r.Name = file.FileName
                                        /\ r.UploadSessionID # "nil"
            dirErr == env'.dirErr
            addErr == env'.addErr
        IN  /\ (db' # db \/ file'.Model # file.Model) =>
                  (~dirErr /\ ~exists /\ ~addErr /\ ret' = NoErr)
            /\ (~dirErr /\ ~exists /\ ~addErr) =>
                  /\ ret' = NoErr
                  /\ \E r \in db' \ db :
                        /\ db' = db \cup {r}
                        /\ r.Name = file.FileName
                        /\ r.Size = file.Size
                        /\ file'.Model = [bound |-> TRUE, rec |-> r]
            /\ (~dirErr /\ exists) =>
                  /\ db' = db
                  /\ file' = file
                  /\ ret' = IF inProgress THEN ErrFileUploadSessionExisted
                            ELSE ErrFileExisted
            /\ (~dirErr /\ ~exists /\ addErr) =>
                  /\ ret' = ErrInsertFileRecord
                  /\ db' = db
                  /\ file' = file
            /\ dirErr =>
                  /\ ret' = ErrCreateDirectory
                  /\ db' = db
                  /\ file' = file
    ]_vars

\* the folder holds a placeholder of the same name with an upload session:
\* nothing is inserted and the FileHeader stays unbound
UploadMeetsPlaceholder ==
    /\ op = "GenericAfterUpload"
    /\ ret = ErrFileUploadSessionExisted
    /\ file.Model = NoModel
    /\ \E r \in db : r.Name = file.FileName /\ r.UploadSessionID = "s1"
    /\ Cardinality(db) = 1

OriginFileHooks ==
    {"HookResetPolicy", "HookValidateCapacityDiff", "HookClearFileSize",
     "HookUpdateSourceName", "GenericAfterUpdate"}

\* C19: every hook that requires the original file record (HookResetPolicy,
\* HookValidateCapacityDiff, HookClearFileSize, HookUpdateSourceName,
\* GenericAfterUpdate) returns ErrObjectNotExist, without crashing and
\* without changing the policy, the handler, the FileHeader or any record,
\* when the context holds no such record; HookResetPolicy with a record
\* present sets the policy to the record's policy and then re-dispatches
\* the handler.
OriginRecordRequired ==
    [][/\ (op' \in OriginFileHooks /\ ~ctxFile.present) =>
              /\ ret' = ErrObjectNotExist
              /\ fsPolicy' = fsPolicy
              /\ fsHandler' = fsHandler
              /\ db' = db
              /\ file' = file
       /\ (op' = "HookResetPolicy" /\ ctxFile.present) =>
              /\ fsPolicy' = [ID |-> ctxFile.PolicyID]
              /\ trace' = <<"fs.Policy =", "DispatchHandler">>
    ]_vars

====
